---- MODULE Spec2Model ----
(***************************************************************************)
(* SchedulerService (src/unnamed/part_000): the periodic job orchestrator  *)
(* that drives the sales sync (every 5 minutes) and the registration sync  *)
(* (every minute), with its consecutive-error trip-wire and its persisted  *)
(* enabled flag.                                                           *)
(*                                                                         *)
(* JavaScript runs one callback at a time: a method body runs atomically   *)
(* up to its first await, and every continuation after an await is one     *)
(* atomic step.  Each action below is one such step.  The collaborators    *)
(* (SalesProcessingService, AutoTweetService, APIToggleService, the        *)
(* database, the cron library) are the environment: their answers are      *)
(* drawn from small sets.                                                  *)
(***************************************************************************)
EXTENDS Integers, Sequences, FiniteSets, Bags, TLC

----------------------------------------------------------------------------
(* Bounds of the model *)

\* CronJob objects that can be alive (started and not stopped) at once.
MaxTimers == 4
\* Values of the wall clock: 0..MaxClock.
MaxClock == 1
\* setSystemState calls that can be awaiting the database at once.
MaxPending == 2
\* runSalesSync and runRegistrationSync invocations that can be suspended on a
\* collaborator at once, the two kinds together.
MaxInFlight == 2
\* consecutiveErrors is not incremented beyond maxConsecutiveErrors + MaxOverrun.
MaxOverrun == 1
\* getUpcomingRuns is called with count in 0 .. MaxCount.
MaxCount == 3

----------------------------------------------------------------------------
(* Program constants and values *)

\* private maxConsecutiveErrors: number = 5
maxConsecutiveErrors == 5

\* CronJob | null: a job is an identity in 1..MaxTimers, null is NoJob.
NoJob == 0
JobIds == 1 .. MaxTimers

\* Date | null
NoTime == -1

\* PostResult: the fields the scheduler reads (success, skipped).
Posted == [success |-> TRUE, skipped |-> FALSE]
Skipped == [success |-> FALSE, skipped |-> TRUE]
Failed == [success |-> FALSE, skipped |-> FALSE]

\* What salesProcessingService.processNewSales() can resolve to.
SourceResults ==
    { [fetched |-> 0, newSales |-> 0, duplicates |-> 0, errors |-> 0,
       processedSales |-> << >>],
      [fetched |-> 4, newSales |-> 3, duplicates |-> 1, errors |-> 2,
       processedSales |-> <<"a", "b", "c">>],
      [fetched |-> 1, newSales |-> 1, duplicates |-> 0, errors |-> 0,
       processedSales |-> << >>] }

\* What autoTweetService.getSettings() can resolve to.
AutoPostSettings == [enabled : BOOLEAN, registrationsEnabled : BOOLEAN]

\* What databaseService.getUnpostedRegistrations(10) can resolve to.
UnpostedBatches == { << >>, <<"r1">> }

\* What autoTweetService.processNewSales / processNewRegistrations can resolve
\* to for a batch: one PostResult per record.
PostResultLists(records) ==
    { [i \in 1 .. Len(records) |-> Posted],
      [i \in 1 .. Len(records) |-> Failed],
      [i \in 1 .. Len(records) |->
          IF i % 3 = 1 THEN Posted ELSE IF i % 3 = 2 THEN Skipped ELSE Failed] }

\* error.message of a rejected collaborator call.
ErrorMessages == { "unavailable" }

\* Values the database can hold under 'scheduler_enabled' ("null": no row).
StoredValues == { "null", "true", "false", "yes" }

NoResult == [fetched |-> 0, newSales |-> 0, duplicates |-> 0, errors |-> 0,
             processedSales |-> << >>]
NoSettings == [enabled |-> FALSE, registrationsEnabled |-> FALSE]
NoStats == [kind |-> "null"]

----------------------------------------------------------------------------
VARIABLES
    salesSyncJob,         \* this.salesSyncJob
    registrationSyncJob,  \* this.registrationSyncJob
    isRunning,            \* this.isRunning
    lastRunTime,          \* this.lastRunTime
    lastRunStats,         \* this.lastRunStats
    consecutiveErrors,    \* this.consecutiveErrors
    salesTimers,          \* CronJobs calling runSalesSync that are started and not stopped
    regTimers,            \* CronJobs calling runRegistrationSync that are started and not stopped
    pendingWrites,        \* setSystemState calls the database has not answered
    saves,                \* history of saveSchedulerState: issued: it was called;
                          \* failed: one of its setSystemState calls rejected
    stored,               \* the database's value under 'scheduler_enabled'
    autoPosting,          \* APIToggleService.isAutoPostingEnabled()
    now,                  \* the wall clock, read by new Date()
    salesRuns,            \* bag of runSalesSync invocations suspended at an await
    regRuns,              \* bag of runRegistrationSync invocations suspended at an await
    manual,               \* the triggerManualSync call in progress
    init,                 \* the initializeFromDatabase call in progress
    last,                 \* the step taken last, with the run it belonged to
    streak,               \* failed sales runs since the last success / resetErrorCounter
    recovery              \* "tripped" after a trip-wire stop, then "reset" after
                          \* resetErrorCounter, then "restarted" after start, then
                          \* "failedAfterRestart" after the next failed sales run

vars == << salesSyncJob, registrationSyncJob, isRunning, lastRunTime, lastRunStats,
           consecutiveErrors, salesTimers, regTimers, pendingWrites, saves, stored,
           autoPosting, now, salesRuns, regRuns, manual, init, last, streak, recovery >>

----------------------------------------------------------------------------
(* The scheduler object together with the cron jobs and database calls its *)
(* synchronous methods act on, as one record, so that a method calling     *)
(* another (start -> stop, the catch handler -> stop) composes.            *)

This ==
    [ salesSyncJob |-> salesSyncJob,
      registrationSyncJob |-> registrationSyncJob,
      isRunning |-> isRunning,
      lastRunTime |-> lastRunTime,
      lastRunStats |-> lastRunStats,
      consecutiveErrors |-> consecutiveErrors,
      salesTimers |-> salesTimers,
      regTimers |-> regTimers,
      pendingWrites |-> pendingWrites,
      saves |-> saves ]

Becomes(t) ==
    /\ salesSyncJob' = t.salesSyncJob
    /\ registrationSyncJob' = t.registrationSyncJob
    /\ isRunning' = t.isRunning
    /\ lastRunTime' = t.lastRunTime
    /\ lastRunStats' = t.lastRunStats
    /\ consecutiveErrors' = t.consecutiveErrors
    /\ salesTimers' = t.salesTimers
    /\ regTimers' = t.regTimers
    /\ pendingWrites' = t.pendingWrites
    /\ saves' = t.saves

\* enabled.toString()
BoolToString(b) == IF b THEN "true" ELSE "false"

\* saveSchedulerState up to its await: the setSystemState call is issued.
\* start/stop/forceStop do not await the returned promise.
saveSchedulerState(t, enabled) ==
    [t EXCEPT !.pendingWrites = Append(@, BoolToString(enabled)),
              !.saves.issued = TRUE]

\* Mutant of stopSalesJob: the handle is dropped but the CronJob is not stopped.
stopSalesJobLeavesTimer(t) == [t EXCEPT !.salesSyncJob = NoJob]

\* CronJob.stop() on the job a handle refers to, then the handle is set to null.
stopSalesJob(t) ==
    [t EXCEPT !.salesTimers = @ \ {t.salesSyncJob}, !.salesSyncJob = NoJob]

stopRegistrationJob(t) ==
    [t EXCEPT !.regTimers = @ \ {t.registrationSyncJob}, !.registrationSyncJob = NoJob]

\* Mutant of stop: isRunning is left as it was.
stopLeavesRunning(t) ==
    LET wasRunning == t.salesSyncJob # NoJob \/ t.registrationSyncJob # NoJob
        t1 == IF t.salesSyncJob # NoJob THEN stopSalesJob(t) ELSE t
        t2 == IF t1.registrationSyncJob # NoJob THEN stopRegistrationJob(t1) ELSE t1
    IN  IF wasRunning THEN saveSchedulerState(t2, FALSE) ELSE t2

\* Mutant of stop: the disabled state is saved also when nothing was running.
stopAlwaysSaves(t) ==
    LET t1 == IF t.salesSyncJob # NoJob THEN stopSalesJob(t) ELSE t
        t2 == IF t1.registrationSyncJob # NoJob THEN stopRegistrationJob(t1) ELSE t1
    IN  saveSchedulerState([t2 EXCEPT !.isRunning = FALSE], FALSE)

stop(t) ==
    LET wasRunning == t.salesSyncJob # NoJob \/ t.registrationSyncJob # NoJob
        t1 == IF t.salesSyncJob # NoJob THEN stopSalesJob(t) ELSE t
        t2 == IF t1.registrationSyncJob # NoJob THEN stopRegistrationJob(t1) ELSE t1
    IN  IF wasRunning
        THEN saveSchedulerState([t2 EXCEPT !.isRunning = FALSE], FALSE)
        ELSE t2

\* Mutant of forceStop: it does what stop does.
forceStopOnlyIfRunning(t) == stop(t)

forceStop(t) ==
    LET t0 == [t EXCEPT !.isRunning = FALSE]
        t1 == IF t0.salesSyncJob # NoJob THEN stopSalesJob(t0) ELSE t0
        t2 == IF t1.registrationSyncJob # NoJob THEN stopRegistrationJob(t1) ELSE t1
    IN  saveSchedulerState(t2, FALSE)

\* new CronJob(...): a job identity no live job has.
NewJob(used) == CHOOSE j \in JobIds \ used : \A k \in JobIds \ used : j <= k

\* Mutant of start: a start clears the error count.
startResetsCounter(t) ==
    LET t0 == IF t.salesSyncJob # NoJob \/ t.registrationSyncJob # NoJob
              THEN stop(t) ELSE t
        s == NewJob(t0.salesTimers \cup t0.regTimers)
        r == NewJob(t0.salesTimers \cup t0.regTimers \cup {s})
        t1 == [t0 EXCEPT !.salesSyncJob = s, !.registrationSyncJob = r]
        t2 == [t1 EXCEPT !.salesTimers = @ \cup {t1.salesSyncJob},
                         !.regTimers = @ \cup {t1.registrationSyncJob},
                         !.isRunning = TRUE,
                         !.consecutiveErrors = 0]
    IN  saveSchedulerState(t2, TRUE)

\* start()
start(t) ==
    LET t0 == IF t.salesSyncJob # NoJob \/ t.registrationSyncJob # NoJob
              THEN stop(t) ELSE t
        s == NewJob(t0.salesTimers \cup t0.regTimers)
        r == NewJob(t0.salesTimers \cup t0.regTimers \cup {s})
        t1 == [t0 EXCEPT !.salesSyncJob = s, !.registrationSyncJob = r]
        t2 == [t1 EXCEPT !.salesTimers = @ \cup {t1.salesSyncJob},
                         !.regTimers = @ \cup {t1.registrationSyncJob},
                         !.isRunning = TRUE]
    IN  saveSchedulerState(t2, TRUE)

\* Mutant of isHealthy: the error count is not looked at.
isHealthyIgnoresErrors(t) == t.isRunning

isHealthy(t) == t.isRunning /\ t.consecutiveErrors < maxConsecutiveErrors

\* Mutant of resetErrorCounter: the counter is left as it was.
resetErrorCounterKeepsCount(t) == t

\* Mutant of resetErrorCounter: the record of the last run is cleared too.
resetErrorCounterClearsStats(t) ==
    [t EXCEPT !.consecutiveErrors = 0, !.lastRunStats = NoStats]

resetErrorCounter(t) == [t EXCEPT !.consecutiveErrors = 0]

\* The model's bounds: start(t) finds two unused job identities, and the
\* database calls awaiting an answer stay within MaxPending.
CanStart(t) ==
    LET t0 == IF t.salesSyncJob # NoJob \/ t.registrationSyncJob # NoJob
              THEN stop(t) ELSE t
    IN  Cardinality(JobIds \ (t0.salesTimers \cup t0.regTimers)) >= 2

WithinBounds(t) == Len(t.pendingWrites) <= MaxPending

----------------------------------------------------------------------------
(* runSalesSync *)

\* The locals of one runSalesSync invocation suspended at an await: pc names
\* the call awaited; gate is what isAutoPostingEnabled() returned when asked;
\* posted lists the batches handed to autoTweetService.processNewSales.
NewSalesRun(startTime, byManual) ==
    [ pc |-> "refreshTimeCache", startTime |-> startTime, result |-> NoResult,
      settings |-> NoSettings, gate |-> FALSE, posted |-> << >>,
      autoPostResults |-> << >>, manual |-> byManual ]

NoRun == [pc |-> "none"]

\* if (result.newSales > 0 && result.processedSales.length > 0)
hasNewSales(result) == result.newSales > 0 /\ Len(result.processedSales) > 0

\* Mutants of salesPostingAllowed: one of the two conditions is not asked.
salesPostingIgnoresGate(settings, gate) == settings.enabled

salesPostingIgnoresFlag(settings, gate) == gate

\* if (autoPostSettings.enabled && this.apiToggleService.isAutoPostingEnabled())
salesPostingAllowed(settings, gate) == settings.enabled /\ gate

\* r => !r.success && !r.skipped
CountFailed(results) ==
    Cardinality({i \in DOMAIN results : ~results[i].success /\ ~results[i].skipped})

SalesStats(run, autoPostResults) ==
    [ kind |-> "sales",
      fetched |-> run.result.fetched,
      newSales |-> run.result.newSales,
      duplicates |-> run.result.duplicates,
      errors |-> run.result.errors,
      processedSales |-> run.result.processedSales,
      autoPostResults |-> autoPostResults ]

\* Mutant of salesSucceeds: a success takes one error off the counter.
salesSucceedsDecrements(t, run, autoPostResults) ==
    [t EXCEPT !.lastRunTime = run.startTime,
              !.lastRunStats = SalesStats(run, autoPostResults),
              !.consecutiveErrors = IF @ > 0 THEN @ - 1 ELSE 0]

\* Mutant of salesSucceeds: failed posts are added to the errors of the run.
salesSucceedsCountsPostFailures(t, run, autoPostResults) ==
    [t EXCEPT !.lastRunTime = run.startTime,
              !.lastRunStats =
                  [SalesStats(run, autoPostResults) EXCEPT
                      !.errors = @ + CountFailed(autoPostResults)],
              !.consecutiveErrors = 0]

\* Mutant of salesSucceeds: the result of a run is dropped when the
\* scheduler was stopped meanwhile.
salesSucceedsOnlyWhileRunning(t, run, autoPostResults) ==
    IF t.isRunning
    THEN [t EXCEPT !.lastRunTime = run.startTime,
                   !.lastRunStats = SalesStats(run, autoPostResults),
                   !.consecutiveErrors = 0]
    ELSE t

\* The end of the try block: lastRunTime, lastRunStats, consecutiveErrors.
salesSucceeds(t, run, autoPostResults) ==
    [t EXCEPT !.lastRunTime = run.startTime,
              !.lastRunStats = SalesStats(run, autoPostResults),
              !.consecutiveErrors = 0]

FailureStats(message, count) ==
    [ kind |-> "failure", success |-> FALSE, error |-> message, consecutiveErrors |-> count ]

\* Mutant of salesFails: the threshold is compared with > instead of >=.
salesFailsOffByOne(t, message) ==
    LET t1 == [t EXCEPT !.consecutiveErrors = @ + 1]
        t2 == [t1 EXCEPT !.lastRunStats = FailureStats(message, t1.consecutiveErrors)]
    IN  IF t2.consecutiveErrors > maxConsecutiveErrors THEN stop(t2) ELSE t2

\* Mutant of salesFails: the threshold is not looked at.
salesFailsNeverStops(t, message) ==
    LET t1 == [t EXCEPT !.consecutiveErrors = @ + 1]
    IN  [t1 EXCEPT !.lastRunStats = FailureStats(message, t1.consecutiveErrors)]

\* Mutant of salesFails: the failure record is written before the count goes up.
salesFailsRecordsOldCount(t, message) ==
    LET t1 == [t EXCEPT !.lastRunStats = FailureStats(message, t.consecutiveErrors)]
        t2 == [t1 EXCEPT !.consecutiveErrors = @ + 1]
    IN  IF t2.consecutiveErrors >= maxConsecutiveErrors THEN stop(t2) ELSE t2

\* Mutant of salesFails: a failure counts twice.
salesFailsCountsTwice(t, message) ==
    LET t1 == [t EXCEPT !.consecutiveErrors = @ + 2]
        t2 == [t1 EXCEPT !.lastRunStats = FailureStats(message, t1.consecutiveErrors)]
    IN  IF t2.consecutiveErrors >= maxConsecutiveErrors THEN stop(t2) ELSE t2

\* The catch block.
salesFails(t, message) ==
    LET t1 == [t EXCEPT !.consecutiveErrors = @ + 1]
        t2 == [t1 EXCEPT !.lastRunStats = FailureStats(message, t1.consecutiveErrors)]
    IN  IF t2.consecutiveErrors >= maxConsecutiveErrors THEN stop(t2) ELSE t2

objVars == << salesSyncJob, registrationSyncJob, isRunning, lastRunTime, lastRunStats,
              consecutiveErrors, salesTimers, regTimers, pendingWrites, saves >>

Replace(bag, old, new) == (bag (-) SetToBag({old})) (+) SetToBag({new})

\* Mutant of InvokeSalesSync: the guard on isRunning is missing.
InvokeSalesSyncUnguarded(byManual) ==
    /\ BagCardinality(salesRuns) + BagCardinality(regRuns) < MaxInFlight
    /\ salesRuns' = salesRuns (+) SetToBag({NewSalesRun(now, byManual)})
    /\ last' = [op |-> "salesInvoked", run |-> NoRun, pre |-> 0]

\* Mutant of InvokeSalesSync: a run is skipped while another sales run is in flight.
InvokeSalesSyncWithLock(byManual) ==
    /\ (isRunning /\ salesRuns = EmptyBag) =>
           BagCardinality(salesRuns) + BagCardinality(regRuns) < MaxInFlight
    /\ IF ~isRunning \/ salesRuns # EmptyBag
       THEN /\ salesRuns' = salesRuns
            /\ last' = [op |-> "salesSkipped", run |-> NoRun, pre |-> 0]
       ELSE /\ salesRuns' = salesRuns (+) SetToBag({NewSalesRun(now, byManual)})
            /\ last' = [op |-> "salesInvoked", run |-> NoRun, pre |-> 0]

\* runSalesSync up to its first await: the guard, startTime, refreshTimeCache().
InvokeSalesSync(byManual) ==
    /\ isRunning => BagCardinality(salesRuns) + BagCardinality(regRuns) < MaxInFlight
    /\ IF ~isRunning
       THEN /\ salesRuns' = salesRuns
            /\ last' = [op |-> "salesSkipped", run |-> NoRun, pre |-> 0]
       ELSE /\ salesRuns' = salesRuns (+) SetToBag({NewSalesRun(now, byManual)})
            /\ last' = [op |-> "salesInvoked", run |-> NoRun, pre |-> 0]

\* The sales cron job's onTick.
SalesTimerFires ==
    /\ \E j \in salesTimers : InvokeSalesSync(FALSE)
    /\ UNCHANGED << objVars, stored, autoPosting, now, regRuns, manual, init, streak, recovery >>

\* A sales run leaves its try block normally.
SalesRunCompletes(run, done, autoPostResults) ==
    /\ Becomes(salesSucceeds(This, done, autoPostResults))
    /\ salesRuns' = salesRuns (-) SetToBag({run})
    /\ last' = [op |-> "salesSucceeded", run |-> done, pre |-> consecutiveErrors]
    /\ streak' = 0
    /\ recovery' = "none"
    /\ UNCHANGED << stored, autoPosting, now, regRuns, manual, init >>

\* A sales run goes on to its next await.
SalesRunProceeds(run, next) ==
    /\ salesRuns' = Replace(salesRuns, run, next)
    /\ last' = [op |-> "salesProceeded", run |-> NoRun, pre |-> 0]
    /\ UNCHANGED << objVars, stored, autoPosting, now, regRuns, manual, init, streak, recovery >>

RefreshTimeCacheResolves ==
    \E run \in BagToSet(salesRuns) :
        /\ run.pc = "refreshTimeCache"
        /\ SalesRunProceeds(run, [run EXCEPT !.pc = "processNewSales"])

ProcessNewSalesResolves ==
    \E run \in BagToSet(salesRuns), result \in SourceResults :
        /\ run.pc = "processNewSales"
        /\ LET got == [run EXCEPT !.result = result]
           IN  IF hasNewSales(result)
               THEN SalesRunProceeds(run, [got EXCEPT !.pc = "getSettings"])
               ELSE SalesRunCompletes(run, got, << >>)

SalesGetSettingsResolves ==
    \E run \in BagToSet(salesRuns), settings \in AutoPostSettings :
        /\ run.pc = "getSettings"
        /\ LET got == [run EXCEPT !.settings = settings,
                                  !.gate = autoPosting]
           IN  IF salesPostingAllowed(settings, autoPosting)
               THEN SalesRunProceeds(run,
                        [got EXCEPT !.pc = "autoPost",
                                    !.posted = Append(@, run.result.processedSales)])
               ELSE SalesRunCompletes(run, got, << >>)

SalesAutoPostResolves ==
    \E run \in BagToSet(salesRuns) :
        /\ run.pc = "autoPost"
        /\ \E results \in PostResultLists(run.result.processedSales) :
               SalesRunCompletes(run, [run EXCEPT !.autoPostResults = results], results)

\* Any awaited call of a sales run rejects: the catch block runs.
SalesRunThrows ==
    \E run \in BagToSet(salesRuns), message \in ErrorMessages :
        /\ consecutiveErrors < maxConsecutiveErrors + MaxOverrun
        /\ WithinBounds(salesFails(This, message))
        /\ Becomes(salesFails(This, message))
        /\ salesRuns' = salesRuns (-) SetToBag({run})
        /\ last' = [op |-> "salesFailed", run |-> run, pre |-> consecutiveErrors]
        /\ streak' = streak + 1
        /\ recovery' = IF consecutiveErrors + 1 >= maxConsecutiveErrors THEN "tripped"
                        ELSE IF recovery = "restarted" THEN "failedAfterRestart"
                        ELSE "none"
        /\ manual' = IF run.manual THEN [manual EXCEPT !.failed = TRUE] ELSE manual
        /\ UNCHANGED << stored, autoPosting, now, regRuns, init >>

----------------------------------------------------------------------------
(* runRegistrationSync *)

\* The locals of one runRegistrationSync invocation suspended at an await.
\* (Its startTime only feeds the duration it logs.)
NewRegistrationRun(byManual) ==
    [ pc |-> "getUnpostedRegistrations", unposted |-> << >>, settings |-> NoSettings,
      gate |-> FALSE, posted |-> << >>, autoPostResults |-> << >>, manual |-> byManual ]

\* if (unpostedRegistrations.length > 0)
hasUnposted(unposted) == Len(unposted) > 0

\* Mutant of registrationPostingAllowed: the registration sub-flag is not asked.
registrationPostingIgnoresSubFlag(settings, gate) == settings.enabled /\ gate

\* if (autoPostSettings.enabled && autoPostSettings.registrationsEnabled
\*     && this.apiToggleService.isAutoPostingEnabled())
registrationPostingAllowed(settings, gate) ==
    settings.enabled /\ settings.registrationsEnabled /\ gate

\* Mutant of registrationSucceeds: the run is recorded like a sales run.
registrationSucceedsRecordsStats(t) ==
    [t EXCEPT !.lastRunTime = 0,
              !.lastRunStats = [kind |-> "registration", success |-> TRUE]]

\* The end of the try block: logging only.
registrationSucceeds(t) == t

\* Mutant of registrationFails: the failure is handled like a sales failure.
registrationFailsLikeSales(t, message) == salesFails(t, message)

\* The catch block: logger.error only.
registrationFails(t, message) == t

\* runRegistrationSync up to its first await: the guard, getUnpostedRegistrations(10).
InvokeRegistrationSync(byManual) ==
    /\ isRunning => BagCardinality(salesRuns) + BagCardinality(regRuns) < MaxInFlight
    /\ IF ~isRunning
       THEN /\ regRuns' = regRuns
            /\ last' = [op |-> "registrationSkipped", run |-> NoRun, pre |-> 0]
       ELSE /\ regRuns' = regRuns (+) SetToBag({NewRegistrationRun(byManual)})
            /\ last' = [op |-> "registrationInvoked", run |-> NoRun, pre |-> 0]

\* The registration cron job's onTick.
RegistrationTimerFires ==
    /\ \E j \in regTimers : InvokeRegistrationSync(FALSE)
    /\ UNCHANGED << objVars, stored, autoPosting, now, salesRuns, manual, init, streak, recovery >>

RegistrationRunCompletes(run, done) ==
    /\ Becomes(registrationSucceeds(This))
    /\ regRuns' = regRuns (-) SetToBag({run})
    /\ last' = [op |-> "registrationSucceeded", run |-> done, pre |-> 0]
    /\ UNCHANGED << stored, autoPosting, now, salesRuns, manual, init, streak, recovery >>

RegistrationRunProceeds(run, next) ==
    /\ regRuns' = Replace(regRuns, run, next)
    /\ last' = [op |-> "registrationProceeded", run |-> NoRun, pre |-> 0]
    /\ UNCHANGED << objVars, stored, autoPosting, now, salesRuns, manual, init, streak, recovery >>

GetUnpostedRegistrationsResolves ==
    \E run \in BagToSet(regRuns), unposted \in UnpostedBatches :
        /\ run.pc = "getUnpostedRegistrations"
        /\ LET got == [run EXCEPT !.unposted = unposted]
           IN  IF hasUnposted(unposted)
               THEN RegistrationRunProceeds(run, [got EXCEPT !.pc = "getSettings"])
               ELSE RegistrationRunCompletes(run, got)

RegistrationGetSettingsResolves ==
    \E run \in BagToSet(regRuns), settings \in AutoPostSettings :
        /\ run.pc = "getSettings"
        /\ LET got == [run EXCEPT !.settings = settings, !.gate = autoPosting]
           IN  IF registrationPostingAllowed(settings, autoPosting)
               THEN RegistrationRunProceeds(run,
                        [got EXCEPT !.pc = "autoPost",
                                    !.posted = Append(@, run.unposted)])
               ELSE RegistrationRunCompletes(run, got)

RegistrationAutoPostResolves ==
    \E run \in BagToSet(regRuns) :
        /\ run.pc = "autoPost"
        /\ \E results \in PostResultLists(run.unposted) :
               RegistrationRunCompletes(run, [run EXCEPT !.autoPostResults = results])

\* Any awaited call of a registration run rejects: the catch block runs.
RegistrationRunThrows ==
    \E run \in BagToSet(regRuns), message \in ErrorMessages :
        /\ Becomes(registrationFails(This, message))
        /\ regRuns' = regRuns (-) SetToBag({run})
        /\ last' = [op |-> "registrationFailed", run |-> run, pre |-> 0]
        /\ manual' = IF run.manual THEN [manual EXCEPT !.failed = TRUE] ELSE manual
        /\ UNCHANGED << stored, autoPosting, now, salesRuns, init, streak, recovery >>

----------------------------------------------------------------------------
(* triggerManualSync *)

\* manual.pc: the await the call is suspended at; manual.failed: one of the
\* two runs it started went through its catch block.
ManualIdle == [pc |-> "idle", failed |-> FALSE]

\* The value triggerManualSync returns: the try block's, or the catch block's.
manualResult(threw) ==
    IF threw THEN [success |-> FALSE, error |-> TRUE]
             ELSE [success |-> TRUE, error |-> FALSE]

\* triggerManualSync up to its first await: runSalesSync() is called.
TriggerManualSync ==
    /\ manual.pc = "idle"
    /\ InvokeSalesSync(TRUE)
    /\ manual' = [pc |-> "runSalesSync", failed |-> FALSE]
    /\ UNCHANGED << objVars, stored, autoPosting, now, regRuns, init, streak, recovery >>

\* runSalesSync()'s promise is fulfilled: runRegistrationSync() is called.
ManualSalesSyncReturns ==
    /\ manual.pc = "runSalesSync"
    /\ \A run \in BagToSet(salesRuns) : ~run.manual
    /\ InvokeRegistrationSync(TRUE)
    /\ manual' = [manual EXCEPT !.pc = "runRegistrationSync"]
    /\ UNCHANGED << objVars, stored, autoPosting, now, salesRuns, init, streak, recovery >>

\* runRegistrationSync()'s promise is fulfilled: the result is returned.
\* Neither run method ever rejects (each catches everything it awaits), so
\* the call's own catch block is not entered.
ManualSyncReturns ==
    /\ manual.pc = "runRegistrationSync"
    /\ \A run \in BagToSet(regRuns) : ~run.manual
    /\ last' = [op |-> "manualReturned",
                run |-> [pc |-> "returned", result |-> manualResult(FALSE),
                         failed |-> manual.failed],
                pre |-> 0]
    /\ manual' = ManualIdle
    /\ UNCHANGED << objVars, stored, autoPosting, now, salesRuns, regRuns, init, streak, recovery >>

----------------------------------------------------------------------------
(* The control surface *)

Start ==
    /\ CanStart(This)
    /\ WithinBounds(start(This))
    /\ Becomes(start(This))
    /\ last' = [op |-> "start", run |-> NoRun, pre |-> 0]
    /\ recovery' = IF recovery = "reset" THEN "restarted" ELSE recovery
    /\ UNCHANGED << stored, autoPosting, now, salesRuns, regRuns, manual, init, streak >>

Stop ==
    /\ WithinBounds(stop(This))
    /\ Becomes(stop(This))
    /\ last' = [op |-> "stop",
                run |-> [pc |-> IF salesSyncJob # NoJob \/ registrationSyncJob # NoJob
                                THEN "wasRunning" ELSE "wasNotRunning"],
                pre |-> 0]
    /\ recovery' = IF recovery \in {"reset", "restarted"} THEN "none" ELSE recovery
    /\ UNCHANGED << stored, autoPosting, now, salesRuns, regRuns, manual, init, streak >>

ForceStop ==
    /\ WithinBounds(forceStop(This))
    /\ Becomes(forceStop(This))
    /\ last' = [op |-> "forceStop",
                run |-> [pc |-> IF salesSyncJob # NoJob \/ registrationSyncJob # NoJob
                                THEN "wasRunning" ELSE "wasNotRunning"],
                pre |-> 0]
    /\ recovery' = IF recovery \in {"reset", "restarted"} THEN "none" ELSE recovery
    /\ UNCHANGED << stored, autoPosting, now, salesRuns, regRuns, manual, init, streak >>

ResetErrorCounter ==
    /\ Becomes(resetErrorCounter(This))
    /\ last' = [op |-> "resetErrorCounter", run |-> NoRun, pre |-> 0]
    /\ streak' = 0
    /\ recovery' = IF recovery = "tripped" THEN "reset" ELSE recovery
    /\ UNCHANGED << stored, autoPosting, now, salesRuns, regRuns, manual, init >>

----------------------------------------------------------------------------
(* Status and introspection: isHealthy, getStatus, getUpcomingRuns *)

\* Time is counted in minutes.  '0 */5 * * * *' and '0 * * * * *'.
SalesPeriod == 5
RegistrationPeriod == 1

\* CronJob.nextDate(): the first instant after the clock reading whose
\* minute is a multiple of the period (the cron zone's offset is a whole
\* number of hours).
nextDate(period, clock) == period * ((clock \div period) + 1)

\* The local time zone of the process, which Date's getMinutes and
\* setMinutes work in: "utc" has no offset; "dst" is one hour ahead of UTC
\* until the instant FallBack and has no offset from then on.
Zones == { "utc", "dst" }
MinutesPerHour == 60
FallBack == 10

\* LocalTZA(t, isUTC) of ECMAScript: the offset at the UTC instant t, or for
\* the local time t; a local time that occurs twice is read with the
\* offset before the transition.
LocalTZA(zone, t, isUTC) ==
    IF zone = "dst" /\ t < (IF isUTC THEN FallBack ELSE FallBack + MinutesPerHour)
    THEN MinutesPerHour ELSE 0

LocalTime(zone, t) == t + LocalTZA(zone, t, TRUE)

UTC(zone, local) == local - LocalTZA(zone, local, FALSE)

\* Date.prototype.getMinutes
getMinutes(zone, t) == LocalTime(zone, t) % MinutesPerHour

\* Date.prototype.setMinutes: the minute field of the local time is
\* replaced (overflowing into the hours) and the result read back as an instant.
setMinutes(zone, t, min) ==
    LET local == LocalTime(zone, t)
    IN  UTC(zone, local - (local % MinutesPerHour) + min)

\* Mutant of nearestRun: the sales time is taken whenever there is one.
nearestRunPrefersSales(nextSalesRunTime, nextRegistrationRunTime) ==
    IF nextSalesRunTime # NoTime THEN nextSalesRunTime ELSE nextRegistrationRunTime

\* getStatus: nextRunTime from the two next run times.
nearestRun(nextSalesRunTime, nextRegistrationRunTime) ==
    IF nextSalesRunTime # NoTime /\ nextRegistrationRunTime # NoTime
    THEN IF nextSalesRunTime < nextRegistrationRunTime
         THEN nextSalesRunTime ELSE nextRegistrationRunTime
    ELSE IF nextSalesRunTime # NoTime THEN nextSalesRunTime
    ELSE IF nextRegistrationRunTime # NoTime THEN nextRegistrationRunTime
    ELSE NoTime

getStatus(t, clock) ==
    LET nextSalesRunTime ==
            IF t.salesSyncJob # NoJob THEN nextDate(SalesPeriod, clock) ELSE NoTime
        nextRegistrationRunTime ==
            IF t.registrationSyncJob # NoJob THEN nextDate(RegistrationPeriod, clock)
            ELSE NoTime
    IN  [ isRunning |-> t.isRunning,
          lastRunTime |-> t.lastRunTime,
          nextRunTime |-> nearestRun(nextSalesRunTime, nextRegistrationRunTime),
          nextSalesRunTime |-> nextSalesRunTime,
          nextRegistrationRunTime |-> nextRegistrationRunTime,
          lastRunStats |-> t.lastRunStats,
          consecutiveErrors |-> t.consecutiveErrors,
          uptime |-> IF t.lastRunTime # NoTime THEN clock - t.lastRunTime ELSE 0 ]

getUpcomingRuns(t, count, clock, zone) ==
    IF t.salesSyncJob = NoJob \/ t.registrationSyncJob = NoJob
    THEN [ sales |-> << >>, registrations |-> << >> ]
    ELSE [ sales |->
              [ k \in 1 .. count |->
                  LET nextSalesRun == nextDate(SalesPeriod, clock)
                  IN  setMinutes(zone, nextSalesRun,
                                 getMinutes(zone, nextSalesRun) + ((k - 1) * 5)) ],
           registrations |->
              [ k \in 1 .. count |->
                  LET nextRegRun == nextDate(RegistrationPeriod, clock)
                  IN  setMinutes(zone, nextRegRun,
                                 getMinutes(zone, nextRegRun) + (k - 1)) ] ]

\* The dashboard asks isHealthy().
IsHealthy ==
    /\ last' = [op |-> "isHealthy", run |-> [pc |-> "returned", result |-> isHealthy(This)],
                pre |-> 0]
    /\ UNCHANGED << objVars, stored, autoPosting, now, salesRuns, regRuns, manual, init,
                    streak, recovery >>

\* The dashboard asks getStatus().
GetStatus ==
    /\ last' = [op |-> "getStatus", run |-> [pc |-> "returned", result |-> getStatus(This, now)],
                pre |-> 0]
    /\ UNCHANGED << objVars, stored, autoPosting, now, salesRuns, regRuns, manual, init,
                    streak, recovery >>

\* The dashboard asks getUpcomingRuns(count).
GetUpcomingRuns ==
    \E count \in 0 .. MaxCount, zone \in Zones :
        /\ last' = [op |-> "getUpcomingRuns",
                    run |-> [pc |-> "returned", count |-> count, zone |-> zone,
                             result |-> getUpcomingRuns(This, count, now, zone)],
                    pre |-> 0]
        /\ UNCHANGED << objVars, stored, autoPosting, now, salesRuns, regRuns, manual, init,
                        streak, recovery >>

----------------------------------------------------------------------------
(* initializeFromDatabase *)

\* Mutant of initializeFromSavedState: any value that is there starts.
initializeFromSavedStateTruthy(t, savedState) ==
    IF savedState # "null" THEN start(t) ELSE t

\* The continuation after getSystemState('scheduler_enabled') resolved.
initializeFromSavedState(t, savedState) ==
    IF savedState = "true" THEN start(t) ELSE t

\* initializeFromDatabase up to its await.
InitializeFromDatabase ==
    /\ init = "idle"
    /\ init' = "getSystemState"
    /\ last' = [op |-> "initializeCalled", run |-> NoRun, pre |-> 0]
    /\ UNCHANGED << objVars, stored, autoPosting, now, salesRuns, regRuns, manual, streak, recovery >>

GetSystemStateResolves ==
    /\ init = "getSystemState"
    /\ stored = "true" => CanStart(This)
    /\ WithinBounds(initializeFromSavedState(This, stored))
    /\ Becomes(initializeFromSavedState(This, stored))
    /\ init' = "idle"
    /\ last' = [op |-> "initialized", run |-> [pc |-> "read", savedState |-> stored], pre |-> 0]
    /\ UNCHANGED << stored, autoPosting, now, salesRuns, regRuns, manual, streak, recovery >>

GetSystemStateRejects ==
    /\ init = "getSystemState"
    /\ init' = "idle"
    /\ last' = [op |-> "initializeFailed", run |-> NoRun, pre |-> 0]
    /\ UNCHANGED << objVars, stored, autoPosting, now, salesRuns, regRuns, manual, streak, recovery >>

----------------------------------------------------------------------------
(* The environment *)

RemoveAt(seq, i) == SubSeq(seq, 1, i - 1) \o SubSeq(seq, i + 1, Len(seq))

\* The setSystemState calls the database may answer next.  The calls are
\* independent promises and IDatabaseService promises no order among them:
\* any of those awaiting an answer.
AnswerOrder(pending) == 1 .. Len(pending)

\* The database answers one of the setSystemState calls.
SetSystemStateResolves ==
    \E i \in AnswerOrder(pendingWrites) :
        /\ stored' = pendingWrites[i]
        /\ pendingWrites' = RemoveAt(pendingWrites, i)
        /\ last' = [op |-> "writeResolved", run |-> NoRun, pre |-> 0]
        /\ UNCHANGED << salesSyncJob, registrationSyncJob, isRunning, lastRunTime,
                        lastRunStats, consecutiveErrors, salesTimers, regTimers, saves,
                        autoPosting, now, salesRuns, regRuns, manual, init, streak, recovery >>

\* Mutant of saveSchedulerStateFails: the failure is handled like a sales failure.
saveSchedulerStateFailsLikeSales(t, message) == salesFails(t, message)

\* The catch block of saveSchedulerState: logger.warn only.
saveSchedulerStateFails(t, message) == t

\* A setSystemState call rejects.
SetSystemStateRejects ==
    \E i \in AnswerOrder(pendingWrites), message \in ErrorMessages :
        LET t == [This EXCEPT !.pendingWrites = RemoveAt(@, i), !.saves.failed = TRUE]
        IN  /\ WithinBounds(saveSchedulerStateFails(t, message))
            /\ Becomes(saveSchedulerStateFails(t, message))
            /\ last' = [op |-> "writeRejected", run |-> NoRun, pre |-> consecutiveErrors]
            /\ UNCHANGED << stored, autoPosting, now, salesRuns, regRuns, manual, init,
                            streak, recovery >>

\* The dashboard flips the APIToggleService switch.
ToggleAutoPosting ==
    /\ autoPosting' = ~autoPosting
    /\ last' = [op |-> "toggle", run |-> NoRun, pre |-> 0]
    /\ UNCHANGED << objVars, stored, now, salesRuns, regRuns, manual, init, streak, recovery >>

\* Time passes.
Tick ==
    /\ now < MaxClock
    /\ now' = now + 1
    /\ last' = [op |-> "tick", run |-> NoRun, pre |-> 0]
    /\ UNCHANGED << objVars, stored, autoPosting, salesRuns, regRuns, manual, init, streak, recovery >>

----------------------------------------------------------------------------
Init ==
    /\ salesSyncJob = NoJob
    /\ registrationSyncJob = NoJob
    /\ isRunning = FALSE
    /\ lastRunTime = NoTime
    /\ lastRunStats = NoStats
    /\ consecutiveErrors = 0
    /\ salesTimers = {}
    /\ regTimers = {}
    /\ pendingWrites = << >>
    /\ saves = [issued |-> FALSE, failed |-> FALSE]
    /\ stored \in StoredValues
    /\ autoPosting \in BOOLEAN
    /\ now = 0
    /\ salesRuns = EmptyBag
    /\ regRuns = EmptyBag
    /\ manual = ManualIdle
    /\ init = "idle"
    /\ last = [op |-> "constructed", run |-> NoRun, pre |-> 0]
    /\ streak = 0
    /\ recovery = "none"

\* The database has answered every setSystemState call issued so far.
Answered == pendingWrites = << >>

(***************************************************************************)
(* Spec: the two cron jobs fire at any time, so runs overlap each other    *)
(* and the control calls in every way (up to MaxInFlight suspended runs).  *)
(* Its environment: the database answers every setSystemState call, and    *)
(* before the next callback of the process runs; the clock stands still;   *)
(* the dashboard calls start, stop, forceStop and resetErrorCounter and    *)
(* flips the posting gate.                                                 *)
(***************************************************************************)
Next ==
    \/ Answered /\ Start
    \/ Answered /\ Stop
    \/ Answered /\ ForceStop
    \/ Answered /\ ResetErrorCounter
    \/ Answered /\ SalesTimerFires
    \/ Answered /\ RefreshTimeCacheResolves
    \/ Answered /\ ProcessNewSalesResolves
    \/ Answered /\ SalesGetSettingsResolves
    \/ Answered /\ SalesAutoPostResolves
    \/ Answered /\ SalesRunThrows
    \/ Answered /\ RegistrationTimerFires
    \/ Answered /\ GetUnpostedRegistrationsResolves
    \/ Answered /\ RegistrationGetSettingsResolves
    \/ Answered /\ RegistrationAutoPostResolves
    \/ Answered /\ RegistrationRunThrows
    \/ Answered /\ ToggleAutoPosting
    \/ SetSystemStateResolves

Spec == Init /\ [][Next]_vars

(***************************************************************************)
(* SpecSequential: every operation of the scheduler, initializeFromDatabase*)
(* and triggerManualSync included, with time passing, under the cadence    *)
(* the design assumes: a run has finished before the next cron tick or     *)
(* manual trigger arrives.  The database answers as in Spec.               *)
(* triggerManualSync resumes right after the run it awaits has returned.   *)
(***************************************************************************)
Quiet == salesRuns = EmptyBag /\ regRuns = EmptyBag /\ manual.pc = "idle"

\* The promise triggerManualSync awaits is fulfilled (the run it started
\* returned at the guard, or has finished): its continuation is a microtask,
\* the next job the event loop runs, before any timer, request or database
\* answer.
ManualResumes ==
    \/ manual.pc = "runSalesSync" /\ \A run \in BagToSet(salesRuns) : ~run.manual
    \/ manual.pc = "runRegistrationSync" /\ \A run \in BagToSet(regRuns) : ~run.manual

Ready == Answered /\ ~ManualResumes

NextSequential ==
    \/ Ready /\ InitializeFromDatabase
    \/ Ready /\ GetSystemStateResolves
    \/ Ready /\ GetSystemStateRejects
    \/ Ready /\ Start
    \/ Ready /\ Stop
    \/ Ready /\ ForceStop
    \/ Ready /\ ResetErrorCounter
    \/ Ready /\ Quiet /\ SalesTimerFires
    \/ Ready /\ Quiet /\ RegistrationTimerFires
    \/ Ready /\ Quiet /\ TriggerManualSync
    \/ ManualSalesSyncReturns
    \/ ManualSyncReturns
    \/ Ready /\ RefreshTimeCacheResolves
    \/ Ready /\ ProcessNewSalesResolves
    \/ Ready /\ SalesGetSettingsResolves
    \/ Ready /\ SalesAutoPostResolves
    \/ Ready /\ SalesRunThrows
    \/ Ready /\ GetUnpostedRegistrationsResolves
    \/ Ready /\ RegistrationGetSettingsResolves
    \/ Ready /\ RegistrationAutoPostResolves
    \/ Ready /\ RegistrationRunThrows
    \/ Ready /\ ToggleAutoPosting
    \/ Ready /\ Tick
    \/ ~ManualResumes /\ SetSystemStateResolves

SpecSequential == Init /\ [][NextSequential]_vars

(***************************************************************************)
(* SpecStore: the database at its own pace.  A setSystemState call is      *)
(* answered at any later time, in any order with the other calls awaiting  *)
(* an answer (up to MaxPending of them), and it resolves or rejects; the   *)
(* control calls, initializeFromDatabase and the cron ticks do not wait    *)
(* for it.  The sources are down: every sales run fails.                   *)
(***************************************************************************)
NextStore ==
    \/ InitializeFromDatabase
    \/ GetSystemStateResolves
    \/ GetSystemStateRejects
    \/ Start
    \/ Stop
    \/ ForceStop
    \/ ResetErrorCounter
    \/ Quiet /\ SalesTimerFires
    \/ SalesRunThrows
    \/ SetSystemStateResolves
    \/ SetSystemStateRejects

SpecStore == Init /\ [][NextStore]_vars

(***************************************************************************)
(* SpecTrip: the sources are down for good.  Every sales run ends in its   *)
(* catch block, at whichever call it awaits; nobody stops the scheduler,   *)
(* and the dashboard resets the counter and starts again only once the     *)
(* scheduler has stopped.  Fairness: a live cron job keeps ticking, a call *)
(* a run awaits is answered, and so is a setSystemState call.              *)
(***************************************************************************)
NextTrip ==
    \/ Answered /\ ~isRunning /\ consecutiveErrors < maxConsecutiveErrors + MaxOverrun /\ Start
    \/ Answered /\ ~isRunning /\ ResetErrorCounter
    \/ Answered /\ SalesTimerFires
    \/ Answered /\ RefreshTimeCacheResolves
    \/ Answered /\ ProcessNewSalesResolves /\ last'.op # "salesSucceeded"
    \/ Answered /\ SalesGetSettingsResolves /\ last'.op # "salesSucceeded"
    \/ Answered /\ SalesRunThrows
    \/ SetSystemStateResolves

SalesStepTrip ==
    \/ Answered /\ RefreshTimeCacheResolves
    \/ Answered /\ ProcessNewSalesResolves /\ last'.op # "salesSucceeded"
    \/ Answered /\ SalesGetSettingsResolves /\ last'.op # "salesSucceeded"
    \/ Answered /\ SalesRunThrows

SpecTrip ==
    /\ Init
    /\ [][NextTrip]_vars
    /\ WF_vars(Answered /\ SalesTimerFires)
    /\ WF_vars(SalesStepTrip)
    /\ WF_vars(SetSystemStateResolves)

(***************************************************************************)
(* SpecStatus: the dashboard.  It starts, stops and resets the scheduler   *)
(* and asks isHealthy, getStatus and getUpcomingRuns at any time, while    *)
(* sales runs succeed or fail one at a time and time passes.  The database *)
(* answers as in Spec.                                                     *)
(***************************************************************************)
NextStatus ==
    \/ Answered /\ Start
    \/ Answered /\ Stop
    \/ Answered /\ ResetErrorCounter
    \/ Answered /\ Quiet /\ SalesTimerFires
    \/ Answered /\ RefreshTimeCacheResolves
    \/ Answered /\ ProcessNewSalesResolves
    \/ Answered /\ SalesGetSettingsResolves
    \/ Answered /\ SalesAutoPostResolves
    \/ Answered /\ SalesRunThrows
    \/ Answered /\ Tick
    \/ Answered /\ IsHealthy
    \/ Answered /\ GetStatus
    \/ Answered /\ GetUpcomingRuns
    \/ SetSystemStateResolves

SpecStatus == Init /\ [][NextStatus]_vars

----------------------------------------------------------------------------
(* Properties *)

(***************************************************************************)
(* SpecOverlap: slow collaborators.  Cron ticks and triggerManualSync      *)
(* arrive while earlier runs are still suspended (up to MaxInFlight of     *)
(* them), and the dashboard starts, stops and force-stops the scheduler    *)
(* and resets the error counter in between.                                *)
(* The database answers as in Spec; triggerManualSync resumes as in        *)
(* SpecSequential.                                                         *)
(***************************************************************************)
NextOverlap ==
    \/ Ready /\ Start
    \/ Ready /\ Stop
    \/ Ready /\ ForceStop
    \/ Ready /\ ResetErrorCounter
    \/ Ready /\ SalesTimerFires
    \/ Ready /\ RegistrationTimerFires
    \/ Ready /\ TriggerManualSync
    \/ ManualSalesSyncReturns
    \/ ManualSyncReturns
    \/ Ready /\ RefreshTimeCacheResolves
    \/ Ready /\ ProcessNewSalesResolves
    \/ Ready /\ SalesGetSettingsResolves
    \/ Ready /\ SalesAutoPostResolves
    \/ Ready /\ SalesRunThrows
    \/ Ready /\ GetUnpostedRegistrationsResolves
    \/ Ready /\ RegistrationGetSettingsResolves
    \/ Ready /\ RegistrationAutoPostResolves
    \/ Ready /\ RegistrationRunThrows
    \/ ~ManualResumes /\ SetSystemStateResolves

SpecOverlap == Init /\ [][NextOverlap]_vars

\* The sales run that finished in the step taken last, if one did.
FinishedSalesRun == IF last.op \in {"salesSucceeded", "salesFailed"} THEN {last.run} ELSE {}

\* The registration run that finished in the step taken last, if one did.
FinishedRegistrationRun ==
    IF last.op \in {"registrationSucceeded", "registrationFailed"} THEN {last.run} ELSE {}

\* C1: at most one sales cron job and at most one registration cron job is
\* live at any time, and a live job is the one the scheduler's handle for
\* that task refers to: no job of an earlier start() survives a later one.
C1_NoDuplicateTimers ==
    /\ salesTimers \subseteq ({salesSyncJob} \ {NoJob})
    /\ regTimers \subseteq ({registrationSyncJob} \ {NoJob})

\* start() was called while running: the old pair was stopped (its "false"
\* write precedes the "true" write) and exactly the new pair is live.
C1_Restarted ==
    /\ last.op = "start"
    /\ pendingWrites = <<"false", "true">>
    /\ salesTimers = {salesSyncJob}
    /\ regTimers = {registrationSyncJob}

\* C2: isRunning holds exactly when both handles are non-null and refer to
\* live cron jobs, and the handles are both null or both non-null.
C2_RunningIffBothHandles ==
    /\ isRunning <=> /\ salesSyncJob # NoJob
                     /\ registrationSyncJob # NoJob
                     /\ salesSyncJob \in salesTimers
                     /\ registrationSyncJob \in regTimers
    /\ (salesSyncJob = NoJob) <=> (registrationSyncJob = NoJob)

\* initializeFromDatabase restarted a scheduler that the trip-wire had
\* stopped and that was started again without a reset.
C2_RestoredAfterTrip ==
    /\ last.op = "initialized"
    /\ isRunning
    /\ consecutiveErrors >= maxConsecutiveErrors

\* C3: the fifth failed sales run in a row (no success and no reset in
\* between) leaves the scheduler stopped with consecutiveErrors = 5; after
\* resetErrorCounter() and start() the next failed sales run leaves
\* consecutiveErrors = 1 and the scheduler running.
C3_TripThenFreshCount ==
    [][ last'.op = "salesFailed" =>
          /\ streak' = maxConsecutiveErrors =>
                (~isRunning' /\ consecutiveErrors' = maxConsecutiveErrors)
          /\ recovery' = "failedAfterRestart" =>
                (consecutiveErrors' = 1 /\ isRunning /\ isRunning') ]_vars

\* A sales run has failed after the trip-wire stop, the reset and the restart.
C3_FailedAfterRecovery ==
    /\ last.op = "salesFailed"
    /\ recovery = "failedAfterRestart"
    /\ consecutiveErrors = 1
    /\ isRunning

\* C4: when the catch block of a sales run ends with consecutiveErrors >=
\* maxConsecutiveErrors, the scheduler is stopped at the end of that step:
\* isRunning is false, both handles are null and no cron job is live.
C4_TripStopsInSameStep ==
    (last.op = "salesFailed" /\ consecutiveErrors >= maxConsecutiveErrors) =>
        /\ ~isRunning
        /\ salesSyncJob = NoJob
        /\ registrationSyncJob = NoJob
        /\ salesTimers = {}
        /\ regTimers = {}

\* The trip-wire stopped a scheduler that had been started again without a
\* reset: the run failed with the counter already at the threshold.
C4_TrippedAgainWithoutReset ==
    /\ last.op = "salesFailed"
    /\ last.pre >= maxConsecutiveErrors
    /\ consecutiveErrors > maxConsecutiveErrors
    /\ ~isRunning

\* C5: a sales run that completes without an exception sets
\* consecutiveErrors to 0 whatever it was, lastRunTime to the run's start
\* time and lastRunStats to the run's result with its post results.
C5_SuccessResets ==
    last.op = "salesSucceeded" =>
        /\ consecutiveErrors = 0
        /\ lastRunTime = last.run.startTime
        /\ lastRunStats.kind = "sales"
        /\ lastRunStats.fetched = last.run.result.fetched
        /\ lastRunStats.newSales = last.run.result.newSales
        /\ lastRunStats.duplicates = last.run.result.duplicates
        /\ lastRunStats.errors = last.run.result.errors
        /\ lastRunStats.processedSales = last.run.result.processedSales
        /\ lastRunStats.autoPostResults = last.run.autoPostResults

\* A sales run that started before the clock moved on succeeded after
\* several failures.
C5_SucceededAfterFailures ==
    /\ last.op = "salesSucceeded"
    /\ last.pre >= 2
    /\ last.pre < maxConsecutiveErrors
    /\ last.run.startTime < now

\* C6: no step of a registration run, whether it goes on, completes or
\* fails at any of its awaited calls, changes consecutiveErrors or
\* isRunning or discards a handle or stops a cron job.
C6_RegistrationLeavesTripWire ==
    [][ last'.op \in {"registrationSkipped", "registrationInvoked", "registrationProceeded",
                      "registrationSucceeded", "registrationFailed"} =>
          UNCHANGED << consecutiveErrors, isRunning, salesSyncJob, registrationSyncJob,
                       salesTimers, regTimers >> ]_vars

\* A registration run failed at processNewRegistrations while the scheduler
\* was running with sales failures counted.
C6_RegistrationFailed ==
    /\ last.op = "registrationFailed"
    /\ last.run.pc = "autoPost"
    /\ consecutiveErrors > 0
    /\ isRunning

\* C7: a sales run calls autoTweetService.processNewSales only if the
\* processor reported newSales > 0 with a non-empty list, settings.enabled
\* was true and isAutoPostingEnabled() was true; when all of these hold it
\* calls it exactly once, with exactly the list the processor returned.
C7_SalesPostedIffAllowed ==
    \A run \in BagToSet(salesRuns) \cup FinishedSalesRun :
        LET allowed == /\ run.result.newSales > 0
                       /\ Len(run.result.processedSales) > 0
                       /\ run.settings.enabled
                       /\ run.gate
        IN  /\ run.posted # << >> => allowed
            /\ allowed => run.posted = << run.result.processedSales >>

\* A sales run handed the three new sales to the pipeline and completed.
C7_PostedThree ==
    /\ last.op = "salesSucceeded"
    /\ last.run.posted = << <<"a", "b", "c">> >>

\* C8: a registration run calls autoTweetService.processNewRegistrations
\* only if the batch is non-empty and settings.enabled,
\* settings.registrationsEnabled and isAutoPostingEnabled() were all true.
C8_RegistrationsPostedOnlyIfAllowed ==
    \A run \in BagToSet(regRuns) \cup FinishedRegistrationRun :
        /\ Len(run.posted) <= 1
        /\ run.posted # << >> =>
              /\ Len(run.unposted) > 0
              /\ run.settings.enabled
              /\ run.settings.registrationsEnabled
              /\ run.gate
              /\ run.posted = << run.unposted >>

\* A registration run found a batch with only the registration sub-flag
\* off, and completed without calling the pipeline.
C8_SubFlagOff ==
    /\ last.op = "registrationSucceeded"
    /\ Len(last.run.unposted) > 0
    /\ last.run.settings.enabled
    /\ ~last.run.settings.registrationsEnabled
    /\ last.run.gate
    /\ last.run.posted = << >>

\* C9: a sales run with newSales > 0 for which the gate or the sales flag
\* was false completes as a success: it never waits on the pipeline, the
\* pipeline is not called, lastRunStats holds the processor's counts with
\* an empty autoPostResults list, and consecutiveErrors is 0.
C9_GateOffStillSucceeds ==
    /\ \A run \in BagToSet(salesRuns) :
           run.pc = "autoPost" => (run.settings.enabled /\ run.gate)
    /\ ( /\ last.op = "salesSucceeded"
         /\ last.run.result.newSales > 0
         /\ ~(last.run.settings.enabled /\ last.run.gate) ) =>
           /\ last.run.posted = << >>
           /\ lastRunStats.kind = "sales"
           /\ lastRunStats.fetched = last.run.result.fetched
           /\ lastRunStats.newSales = last.run.result.newSales
           /\ lastRunStats.duplicates = last.run.result.duplicates
           /\ lastRunStats.errors = last.run.result.errors
           /\ lastRunStats.autoPostResults = << >>
           /\ consecutiveErrors = 0

\* Three new sales were found with the feature flag on and the gate off,
\* after a failed run: the run succeeded and recorded newSales = 3.
C9_GateOffWithNewSales ==
    /\ last.op = "salesSucceeded"
    /\ last.run.result.newSales = 3
    /\ last.run.settings.enabled
    /\ ~last.run.gate
    /\ last.pre > 0
    /\ lastRunStats.newSales = 3

\* C10: post results that are Failed or Skipped do not fail the run: a run
\* that got its post results back ends in the success path, with
\* consecutiveErrors = 0 and lastRunStats.errors equal to the processor's
\* error count, whatever the number of Failed results.
C10_PostFailuresAreNotRunFailures ==
    /\ last.op = "salesFailed" => last.run.autoPostResults = << >>
    /\ (last.op = "salesSucceeded" /\ last.run.posted # << >>) =>
           /\ consecutiveErrors = 0
           /\ lastRunStats.kind = "sales"
           /\ lastRunStats.errors = last.run.result.errors
           /\ lastRunStats.autoPostResults = last.run.autoPostResults

\* Every post of a run failed, after a failed run: the run succeeded.
C10_AllPostsFailed ==
    /\ last.op = "salesSucceeded"
    /\ Len(last.run.autoPostResults) = 3
    /\ CountFailed(last.run.autoPostResults) = 3
    /\ last.pre > 0

\* C11: a sales or registration invocation made while isRunning is false
\* (by triggerManualSync; a cron job is live only while isRunning is true)
\* returns at the guard: no run is suspended on a collaborator, and
\* consecutiveErrors, lastRunTime, lastRunStats, isRunning, both handles,
\* the cron jobs and the database calls are as before.
C11_SkippedRunIsNoOp ==
    [][ ( /\ ~isRunning
          /\ last'.op \in {"salesSkipped", "salesInvoked",
                            "registrationSkipped", "registrationInvoked"} ) =>
            /\ last'.op \in {"salesSkipped", "registrationSkipped"}
            /\ UNCHANGED << objVars, salesRuns, regRuns >> ]_vars

\* triggerManualSync was called on a stopped scheduler with failures
\* counted: both of its invocations were skipped.
C11_ManualWhileStopped ==
    /\ last.op = "registrationSkipped"
    /\ manual.pc = "runRegistrationSync"
    /\ ~isRunning
    /\ consecutiveErrors > 0
    /\ salesRuns = EmptyBag
    /\ regRuns = EmptyBag

\* C12: stop() called with both handles null changes no field, stops no
\* cron job and issues no setSystemState call; and after any stop() a
\* further stop() would change nothing: stop(); stop() ends in the state
\* stop() ends in.
C12_StopIdempotent ==
    [][ last'.op = "stop" =>
          /\ (salesSyncJob = NoJob /\ registrationSyncJob = NoJob) => UNCHANGED objVars
          /\ stop(This') = This' ]_vars

\* stop() was called on a scheduler that an earlier stop had left stopped
\* with its "false" write answered.
C12_StoppedTwice ==
    /\ last.op = "stop"
    /\ last.run.pc = "wasNotRunning"
    /\ saves.issued
    /\ stored = "false"
    /\ ~isRunning
    /\ pendingWrites = << >>

\* C13: forceStop() always ends with isRunning false, both handles null
\* and no cron job live, issues exactly one setSystemState("false") call,
\* also when nothing was running, and leaves consecutiveErrors, lastRunTime
\* and lastRunStats as they were.
C13_ForceStopAlwaysStopsAndSaves ==
    [][ last'.op = "forceStop" =>
          /\ ~isRunning'
          /\ salesSyncJob' = NoJob
          /\ registrationSyncJob' = NoJob
          /\ salesTimers' = {}
          /\ regTimers' = {}
          /\ pendingWrites' = Append(pendingWrites, "false")
          /\ UNCHANGED << consecutiveErrors, lastRunTime, lastRunStats >> ]_vars

\* forceStop() was called on a stopped scheduler: the write was issued.
C13_ForceStoppedWhileStopped ==
    /\ last.op = "forceStop"
    /\ last.run.pc = "wasNotRunning"
    /\ pendingWrites = << "false" >>
    /\ ~isRunning

\* C14: whenever saveSchedulerState has been called, none of its
\* setSystemState calls has rejected and none is awaiting an answer, the
\* value stored under 'scheduler_enabled' is isRunning.toString().
C14_StoredIsRunning ==
    (saves.issued /\ ~saves.failed /\ pendingWrites = << >>) =>
        stored = BoolToString(isRunning)

\* C15: initializeFromDatabase calls start() exactly when the read resolves
\* to the string "true", ending with isRunning true and both handles on
\* live cron jobs; when the read rejects or resolves to "false", null or
\* any other value it changes nothing, so a stopped scheduler stays stopped
\* with both handles null; in every case the call returns normally.
C15_FailClosed ==
    [][ /\ last'.op = "initialized" =>
              IF last'.run.savedState = "true"
              THEN /\ isRunning'
                   /\ salesSyncJob' # NoJob
                   /\ registrationSyncJob' # NoJob
                   /\ salesSyncJob' \in salesTimers'
                   /\ registrationSyncJob' \in regTimers'
                   /\ pendingWrites' # pendingWrites
              ELSE /\ UNCHANGED objVars
                   /\ ~isRunning =>
                         (~isRunning' /\ salesSyncJob' = NoJob /\ registrationSyncJob' = NoJob)
        /\ last'.op = "initializeFailed" =>
              /\ UNCHANGED objVars
              /\ ~isRunning =>
                    (~isRunning' /\ salesSyncJob' = NoJob /\ registrationSyncJob' = NoJob)
        /\ last'.op \in {"initialized", "initializeFailed"} =>
              (init = "getSystemState" /\ init' = "idle") ]_vars

\* The read resolved to a value that is neither "true" nor "false": the
\* scheduler stayed stopped.
C15_UnparseableValue ==
    /\ last.op = "initialized"
    /\ last.run.savedState = "yes"
    /\ ~isRunning
    /\ salesSyncJob = NoJob
    /\ registrationSyncJob = NoJob
    /\ init = "idle"

\* C16: the answer to a setSystemState call, rejection or success, changes
\* neither isRunning nor a handle nor a cron job nor consecutiveErrors,
\* lastRunTime or lastRunStats: start, stop and forceStop have ended with
\* the same in-memory state whichever answer comes.
C16_SaveAnswerLeavesMemory ==
    [][ last'.op \in {"writeRejected", "writeResolved"} =>
          UNCHANGED << salesSyncJob, registrationSyncJob, isRunning, salesTimers,
                       regTimers, consecutiveErrors, lastRunTime, lastRunStats >> ]_vars

\* The write of start() was rejected: the scheduler runs on, with the
\* database not saying "true".
C16_StartSaveFailed ==
    /\ last.op = "writeRejected"
    /\ isRunning
    /\ salesSyncJob \in salesTimers
    /\ registrationSyncJob \in regTimers
    /\ stored # "true"
    /\ pendingWrites = << >>
    /\ consecutiveErrors = last.pre

\* C17: no step of a triggerManualSync call (its two invocations, its
\* return, and the completion or failure of a run it started) changes
\* salesSyncJob, registrationSyncJob or isRunning.
C17_ManualSyncKeepsHandles ==
    [][ ( \/ manual' # manual
          \/ /\ last'.op \in {"salesSucceeded", "salesFailed",
                                "registrationSucceeded", "registrationFailed"}
             /\ last'.run.manual ) =>
            UNCHANGED << salesSyncJob, registrationSyncJob, isRunning >> ]_vars

\* C18: when triggerManualSync returns, its result has success = false
\* with an error exactly when the sales run or the registration run it
\* started went through its catch block, and success = true otherwise.
C18_ManualResultReportsFailure ==
    last.op = "manualReturned" =>
        /\ last.run.result.success <=> ~last.run.failed
        /\ last.run.result.error <=> last.run.failed

\* C20: stop() and forceStop() leave the suspended runs as they are; a
\* sales run that finishes while isRunning is false applies its result
\* (success: consecutiveErrors = 0, lastRunTime = its start time,
\* lastRunStats = its result; failure: consecutiveErrors + 1 and the
\* failure record), and leaves isRunning false, both handles null and no
\* cron job started.
C20_LateCompletionApplies ==
    [][ /\ last'.op \in {"stop", "forceStop"} => UNCHANGED << salesRuns, regRuns >>
        /\ (~isRunning /\ last'.op \in {"salesSucceeded", "salesFailed"}) =>
              /\ ~isRunning'
              /\ salesSyncJob' = NoJob
              /\ registrationSyncJob' = NoJob
              /\ UNCHANGED << salesTimers, regTimers >>
        /\ (~isRunning /\ last'.op = "salesSucceeded") =>
              /\ consecutiveErrors' = 0
              /\ lastRunTime' = last'.run.startTime
              /\ lastRunStats' = SalesStats(last'.run, last'.run.autoPostResults)
        /\ (~isRunning /\ last'.op = "salesFailed") =>
              /\ consecutiveErrors' = consecutiveErrors + 1
              /\ lastRunStats'.kind = "failure"
              /\ lastRunStats'.success = FALSE
              /\ lastRunStats'.consecutiveErrors = consecutiveErrors + 1 ]_vars

\* A sales run that was suspended when the scheduler was stopped succeeded
\* afterwards and cleared the failures counted before it.
C20_SucceededAfterStop ==
    /\ last.op = "salesSucceeded"
    /\ ~isRunning
    /\ salesSyncJob = NoJob
    /\ registrationSyncJob = NoJob
    /\ last.pre > 0
    /\ consecutiveErrors = 0
    /\ lastRunTime = last.run.startTime
    /\ lastRunStats.kind = "sales"

\* C19: with every sales run failing, the cron job ticking and no success,
\* reset or start in between, a running scheduler is eventually stopped
\* with no cron job live; every failed run adds one to consecutiveErrors
\* and a scheduler is never running after a failed run that left
\* consecutiveErrors at maxConsecutiveErrors or more, so it takes at most
\* maxConsecutiveErrors failed runs.
C19_FailuresLeadToStop ==
    /\ []((isRunning /\ last.op = "salesFailed") =>
             consecutiveErrors < maxConsecutiveErrors)
    /\ isRunning ~> (~isRunning /\ salesTimers = {} /\ regTimers = {})

\* The fifth failed run in a row stopped the scheduler.
C19_Tripped ==
    /\ last.op = "salesFailed"
    /\ streak = maxConsecutiveErrors
    /\ consecutiveErrors = maxConsecutiveErrors
    /\ ~isRunning
    /\ salesTimers = {}
    /\ regTimers = {}

\* C21: resetErrorCounter() sets consecutiveErrors to 0 and changes nothing
\* else: isRunning, the handles, the cron jobs, lastRunTime, lastRunStats,
\* the stored flag and the setSystemState calls in flight are as before.
C21_ResetOnlyZeroesCounter ==
    [][ last'.op = "resetErrorCounter" =>
          /\ consecutiveErrors' = 0
          /\ UNCHANGED << salesSyncJob, registrationSyncJob, isRunning, salesTimers,
                          regTimers, lastRunTime, lastRunStats, pendingWrites, stored >> ]_vars

\* The counter was reset after the trip-wire had stopped the scheduler:
\* the scheduler is still stopped and the failure record still there.
C21_ResetWhileStopped ==
    /\ last.op = "resetErrorCounter"
    /\ recovery = "reset"
    /\ consecutiveErrors = 0
    /\ ~isRunning
    /\ salesSyncJob = NoJob
    /\ registrationSyncJob = NoJob
    /\ lastRunStats.kind = "failure"
    /\ lastRunStats.consecutiveErrors >= maxConsecutiveErrors

\* C22: isHealthy() returns true exactly when isRunning is true and
\* consecutiveErrors < maxConsecutiveErrors, and it changes no state.
C22_HealthyIffRunningBelowThreshold ==
    [][ last'.op = "isHealthy" =>
          /\ last'.run.result <=> (isRunning /\ consecutiveErrors < maxConsecutiveErrors)
          /\ UNCHANGED << objVars, stored, autoPosting, now, salesRuns, regRuns, manual,
                          init >> ]_vars

\* isHealthy() returned false on a running scheduler: it had been started
\* again after a trip without a reset.
C22_RunningUnhealthy ==
    /\ last.op = "isHealthy"
    /\ ~last.run.result
    /\ isRunning
    /\ consecutiveErrors >= maxConsecutiveErrors

\* C23: getStatus() reports nextSalesRunTime and nextRegistrationRunTime as
\* null exactly when the handle is null, and nextRunTime is the earlier of
\* the two when both are non-null, the non-null one when one is, and null
\* when both are null; the same holds of nearestRun for every pair of a
\* time or null.  getStatus() changes no state.
C23_NextRunIsNearest ==
    [][ last'.op = "getStatus" =>
          LET status == last'.run.result
              s == status.nextSalesRunTime
              r == status.nextRegistrationRunTime
              Nearest(a, b) ==
                  IF a # NoTime /\ b # NoTime THEN (IF a <= b THEN a ELSE b)
                  ELSE IF a # NoTime THEN a
                  ELSE b
          IN  /\ (s = NoTime) <=> (salesSyncJob = NoJob)
              /\ (r = NoTime) <=> (registrationSyncJob = NoJob)
              /\ status.nextRunTime = Nearest(s, r)
              /\ ~isRunning => status.nextRunTime = NoTime
              /\ \A a, b \in {NoTime} \cup (0 .. SalesPeriod) :
                     nearestRun(a, b) = Nearest(a, b)
              /\ UNCHANGED << objVars, stored, autoPosting, now, salesRuns, regRuns,
                              manual, init >> ]_vars

\* getStatus() on a running scheduler whose registration job fires before
\* its sales job.
C23_RegistrationIsNext ==
    /\ last.op = "getStatus"
    /\ isRunning
    /\ last.run.result.nextSalesRunTime = 5
    /\ last.run.result.nextRegistrationRunTime = 2
    /\ last.run.result.nextRunTime = 2

\* C24: on a running scheduler getUpcomingRuns(count) returns count sales
\* times and count registration times, the i-th (from 0) being the job's
\* next fire time plus 5 * i minutes, respectively plus i minutes; on a
\* stopped scheduler it returns two empty lists.
C24_UpcomingRunsAreMultiples ==
    last.op = "getUpcomingRuns" =>
        LET count == last.run.count
            runs == last.run.result
        IN  IF isRunning
            THEN /\ Len(runs.sales) = count
                 /\ Len(runs.registrations) = count
                 /\ \A k \in 1 .. count :
                        /\ runs.sales[k] = nextDate(SalesPeriod, now) + 5 * (k - 1)
                        /\ runs.registrations[k] =
                               nextDate(RegistrationPeriod, now) + (k - 1)
            ELSE runs.sales = << >> /\ runs.registrations = << >>

\* C25: there is no per-task lock.  An invocation of runSalesSync or
\* runRegistrationSync, by a cron tick or by triggerManualSync, is skipped
\* only when the scheduler is not running; one that finds it running starts
\* a run, adding it to the runs of the same task already suspended at a
\* collaborator call.
C25_OnlyRunningGates ==
    [][ /\ last'.op = "salesSkipped" => (~isRunning /\ salesRuns' = salesRuns)
        /\ last'.op = "salesInvoked" =>
              /\ isRunning
              /\ BagCardinality(salesRuns') = BagCardinality(salesRuns) + 1
        /\ last'.op = "registrationSkipped" => (~isRunning /\ regRuns' = regRuns)
        /\ last'.op = "registrationInvoked" =>
              /\ isRunning
              /\ BagCardinality(regRuns') = BagCardinality(regRuns) + 1 ]_vars

\* triggerManualSync arrived while the sales run of a cron tick was suspended:
\* two sales runs are in flight.
C25_TwoSalesRunsInFlight ==
    /\ last.op = "salesInvoked"
    /\ manual.pc = "runSalesSync"
    /\ BagCardinality(salesRuns) = 2
    /\ \E run \in BagToSet(salesRuns) : ~run.manual
    /\ \E run \in BagToSet(salesRuns) : run.manual

\* C26: a sales run awaits refreshTimeCache() first, and a rejection of it
\* ends the run in the catch block: the run has neither a result of
\* processNewSales nor settings and has handed nothing to the posting
\* pipeline; consecutiveErrors goes up by one, lastRunStats becomes the
\* failure record with the new count, and lastRunTime stays.
C26_RefreshFailureFailsRun ==
    [][ /\ last'.op = "salesInvoked" =>
              \E byManual \in BOOLEAN :
                  salesRuns' = salesRuns (+) SetToBag({NewSalesRun(now, byManual)})
        /\ (last'.op = "salesFailed" /\ last'.run.pc = "refreshTimeCache") =>
              /\ last'.run.result = NoResult
              /\ last'.run.settings = NoSettings
              /\ last'.run.posted = << >>
              /\ consecutiveErrors' = consecutiveErrors + 1
              /\ lastRunStats'.kind = "failure"
              /\ lastRunStats'.success = FALSE
              /\ lastRunStats'.error \in ErrorMessages
              /\ lastRunStats'.consecutiveErrors = consecutiveErrors + 1
              /\ lastRunTime' = lastRunTime ]_vars

\* After a successful run, refreshTimeCache() rejected in a later run, for
\* the second time in a row.
C26_RefreshFailedAfterSuccess ==
    /\ last.op = "salesFailed"
    /\ last.run.pc = "refreshTimeCache"
    /\ lastRunTime # NoTime
    /\ last.pre = 1
    /\ consecutiveErrors = 2
    /\ lastRunStats = FailureStats(lastRunStats.error, 2)

\* C27: consecutiveErrors is the number of sales runs that ended in the
\* catch block since the last of: construction, a sales run that succeeded,
\* resetErrorCounter().  (streak counts exactly that; start, stop, forceStop,
\* registration runs and database answers do not touch it.)
C27_CounterIsFailureStreak ==
    /\ [](consecutiveErrors = streak)
    /\ [][ last'.op \in { "start", "stop", "forceStop", "registrationInvoked",
                           "registrationSkipped", "registrationProceeded",
                           "registrationSucceeded", "registrationFailed",
                           "writeResolved" } =>
               consecutiveErrors' = consecutiveErrors ]_vars

\* Three sales runs failed in a row, and the count survived a stop and the
\* start after it.
C27_StreakKeptAcrossRestart ==
    /\ last.op = "start"
    /\ isRunning
    /\ streak = 3
    /\ consecutiveErrors = 3

\* C28 as stated: consecutiveErrors stays within 0 .. maxConsecutiveErrors.
\* The catch block adds one whatever the count is, so a run that fails
\* after the trip goes past the threshold.
C28_CounterWithinThreshold ==
    /\ consecutiveErrors >= 0
    /\ consecutiveErrors <= maxConsecutiveErrors

\* C28, amended: consecutiveErrors is never negative, and it goes above
\* maxConsecutiveErrors only by a failed sales run that found it at or
\* above maxConsecutiveErrors already (a run still in flight at the trip,
\* or a run after a start() without resetErrorCounter()); such a run adds
\* one and leaves the scheduler stopped.
C28_ExceedsOnlyAfterTrip ==
    /\ [](consecutiveErrors >= 0)
    /\ [][ (consecutiveErrors' # consecutiveErrors /\
            consecutiveErrors' > maxConsecutiveErrors) =>
              /\ consecutiveErrors >= maxConsecutiveErrors
              /\ consecutiveErrors' = consecutiveErrors + 1
              /\ last'.op = "salesFailed"
              /\ ~isRunning' ]_vars

\* A sales run failed with the count at the threshold: the count is one
\* above it and the scheduler is stopped.
C28_AboveThreshold ==
    /\ last.op = "salesFailed"
    /\ last.pre = maxConsecutiveErrors
    /\ consecutiveErrors = maxConsecutiveErrors + 1
    /\ lastRunStats = FailureStats(lastRunStats.error, maxConsecutiveErrors + 1)
    /\ salesTimers = {}
    /\ ~isRunning

\* C29 as stated: whenever a run hands a batch to the posting pipeline
\* (autoTweetService.processNewSales / processNewRegistrations), isRunning
\* is true.  A run reads isRunning only at its guard, so one that was
\* suspended when the scheduler stopped goes on to post.
C29_PipelineOnlyWhileRunning ==
    [][ ( \/ \E run \in BagToSet(salesRuns') :
                /\ run.pc = "autoPost"
                /\ CopiesIn(run, salesRuns') > CopiesIn(run, salesRuns)
          \/ \E run \in BagToSet(regRuns') :
                /\ run.pc = "autoPost"
                /\ CopiesIn(run, regRuns') > CopiesIn(run, regRuns) )
        => isRunning ]_vars

\* C29, amended: isRunning is true when a run passes its guard, not
\* necessarily when it posts.  A run starts only while the scheduler is
\* running, and the posting pipeline is called only by a run that started
\* earlier and was suspended at getSettings(), whether or not the scheduler
\* is still running.
C29_PipelineOnlyAfterGuard ==
    [][ /\ BagCardinality(salesRuns') > BagCardinality(salesRuns) => isRunning
        /\ BagCardinality(regRuns') > BagCardinality(regRuns) => isRunning
        /\ \A run \in BagToSet(salesRuns') :
              (run.pc = "autoPost" /\ CopiesIn(run, salesRuns') > CopiesIn(run, salesRuns)) =>
                 /\ BagCardinality(salesRuns') = BagCardinality(salesRuns)
                 /\ \E before \in BagToSet(salesRuns) :
                        /\ before.pc = "getSettings"
                        /\ CopiesIn(before, salesRuns') < CopiesIn(before, salesRuns)
        /\ \A run \in BagToSet(regRuns') :
              (run.pc = "autoPost" /\ CopiesIn(run, regRuns') > CopiesIn(run, regRuns)) =>
                 /\ BagCardinality(regRuns') = BagCardinality(regRuns)
                 /\ \E before \in BagToSet(regRuns) :
                        /\ before.pc = "getSettings"
                        /\ CopiesIn(before, regRuns') < CopiesIn(before, regRuns) ]_vars

\* The only run in flight passed its guard, the scheduler was stopped, and
\* the run then handed its batch to the posting pipeline.
C29_PostedWhileStopped ==
    /\ last.op = "salesProceeded"
    /\ ~isRunning
    /\ salesTimers = {}
    /\ regRuns = EmptyBag
    /\ BagCardinality(salesRuns) = 1
    /\ \E run \in BagToSet(salesRuns) : run.pc = "autoPost" /\ Len(run.posted) = 1

\* C30: lastRunTime changes only in the step in which a sales run succeeds,
\* and lastRunStats only in a step in which a sales run succeeds or fails:
\* registration runs, start, stop, forceStop, resetErrorCounter and database
\* answers leave both as they are, and a failed sales run leaves lastRunTime.
C30_OnlySalesRunsRecord ==
    [][ /\ lastRunTime' # lastRunTime => last'.op = "salesSucceeded"
        /\ lastRunStats' # lastRunStats => last'.op \in { "salesSucceeded", "salesFailed" }
        /\ last'.op \notin { "salesSucceeded", "salesFailed" } =>
              UNCHANGED << lastRunTime, lastRunStats >>
        /\ last'.op = "salesFailed" => lastRunTime' = lastRunTime ]_vars

\* A registration run succeeded after a sales run had: time and stats are
\* still those of the sales run.
C30_RegistrationAfterSales ==
    /\ last.op = "registrationSucceeded"
    /\ Len(last.run.posted) = 1
    /\ lastRunTime # NoTime
    /\ lastRunStats # NoStats
    /\ lastRunStats.kind = "sales"

====
